---- MODULE Spec2Model ----
(***************************************************************************)
(* Model of scripts/wind_analysis.py: class WindAnalysis, which holds a    *)
(* reference to a table of wind observations and offers two synchronous    *)
(* operations, plot_wind_rose and plot_radial_bar.                         *)
(*                                                                         *)
(* Representation                                                          *)
(*   - a cell of a table is an option: NA (missing, NaN) or Some(v);       *)
(*   - a DataFrame is [cols |-> set of column names, rows |-> sequence of  *)
(*     functions from the column names to cells];                          *)
(*   - DataFrames are objects: heap maps an object id to its contents, so  *)
(*     that writing a column into one frame is visible through every       *)
(*     reference to that frame;                                            *)
(*   - directions are whole degrees; a boundary computed by np.linspace is *)
(*     the exact rational 360*k/n together with the direction (err) of the *)
(*     IEEE-754 double rounding of k * (360.0/n);                          *)
(*   - pyplot's global registry of open figures is the sequence figs.      *)
(***************************************************************************)
EXTENDS Integers, Sequences, FiniteSets, TLC

(* ------------------------------ bounds -------------------------------- *)
MaxRows == 2      \* rows of an enumerated dataset
MaxBins == 2      \* num_bins arguments 1..MaxBins are all tried
MaxFigs == 1      \* figures failed calls may leave open before we stop

(* ------------------------- program constants -------------------------- *)
FullCircle == 360
DefaultNumBins == 8
DefaultBins == <<0, 1, 2, 3, 5, 10, 15, 20>>
DefaultCmap == "coolwarm"

(* ------------------------------- cells -------------------------------- *)
NA == <<>>
Some(v) == <<v>>
IsNa(c) == c = NA
Val(c) == c[1]

(* ------------------------------ inputs -------------------------------- *)
DataCols == {"WS", "WD", "GHI"}
Speeds == {1, 3}
InRangeDirs == {0, 216}
OutOfRangeDirs == {-1, 360, 361}
Row(s, d) == [WS |-> s, WD |-> d, GHI |-> Some(0)]
\* complete rows inside the circle, complete rows outside it, and rows with
\* a missing speed or a missing direction
RowSet ==
    {Row(Some(s), Some(0)) : s \in Speeds}
    \cup {Row(Some(1), Some(d)) : d \in InRangeDirs \ {0}}
    \cup {Row(Some(3), Some(d)) : d \in OutOfRangeDirs}
    \cup {Row(NA, Some(0)), Row(Some(1), NA)}

ExampleRow(s, d) == Row(Some(s), Some(d))
ExampleData ==
    <<ExampleRow(1, 0), ExampleRow(2, 90), ExampleRow(3, 180), ExampleRow(4, 270)>>

Datasets == (UNION {[1..m -> RowSet] : m \in 0..MaxRows}) \cup {ExampleData}

\* the column arguments: the defaults, and a speed column the table lacks
ColArgs == {[speed |-> "WS", dir |-> "WD"], [speed |-> "Wspd", dir |-> "WD"]}
NumBinsArgs == (1..MaxBins) \cup {4, DefaultNumBins, 35}
\* sector counts around the point where two labels first coincide
WideNumBinsArgs == {DefaultNumBins, 33, 35, 720, 721}
\* bins: None (NA) or a list of speed thresholds
BinsArgs == {NA, Some(<<0, 5, 10>>)}
\* cmap: a string, a Colormap object, or some other object (here the int 5)
CmapArgs ==
    {[type |-> "str", v |-> DefaultCmap], [type |-> "str", v |-> "no_such_map"],
     [type |-> "Colormap", v |-> "viridis"], [type |-> "int", v |-> "5"]}
\* names known to matplotlib.cm
RegisteredCmaps == {"coolwarm", "viridis"}

(* --------------------------- DataFrame ops ---------------------------- *)
\* self.data[[a, b]] : a new frame holding the named columns
Select(frame, cs) ==
    [cols |-> cs,
     rows |-> [i \in 1..Len(frame.rows) |-> [c \in cs |-> frame.rows[i][c]]]]

HasNa(row) == \E c \in DOMAIN row : IsNa(row[c])

\* dropna(how="all") : drop only the rows in which every cell is missing
DropNaAll(frame) ==
    [cols |-> frame.cols,
     rows |-> SelectSeq(frame.rows, LAMBDA r : \E c \in DOMAIN r : ~IsNa(r[c]))]

\* DataFrame.dropna() : drop every row that has a missing cell in any column
DropNa(frame) ==
    [cols |-> frame.cols,
     rows |-> SelectSeq(frame.rows, LAMBDA r : ~HasNa(r))]

(* ------------------- np.linspace in double precision ------------------ *)
(* np.linspace(0, 360, n + 1) computes step = 360.0 / n once and returns   *)
(* k * step for k < n, and exactly 360 for k = n.  Both operations round   *)
(* to 53 significant bits.  With s = 52 - floor(log2(360/n)) the stored    *)
(* step is M / 2^s, where M is the integer nearest to 360 * 2^s / n, so    *)
(* M * n = 360 * 2^s + StepRho(n).  Where the exact boundary d = 360*k/n   *)
(* is a whole number, k * M = d * 2^s + k * StepRho(n) / n, and rounding   *)
(* that product to 53 bits moves it off d exactly when the second term,    *)
(* scaled to the last kept bit, rounds to something other than 0.  Where   *)
(* the exact boundary is not a whole number it is at least 1/n away from   *)
(* every whole number, far more than the rounding error, so whole-degree   *)
(* comparisons and int() see the exact value.                              *)

RECURSIVE Pow2(_)
Pow2(t) == IF t = 0 THEN 1 ELSE 2 * Pow2(t - 1)

RECURSIVE Pow2Mod(_, _)
Pow2Mod(s, m) == IF s = 0 THEN 1 % m ELSE (2 * Pow2Mod(s - 1, m)) % m

\* floor(log2(a / b)) for positive integers a, b
RECURSIVE FloorLog2(_, _)
FloorLog2(a, b) ==
    IF a < b THEN FloorLog2(2 * a, b) - 1
    ELSE IF a >= 2 * b THEN FloorLog2(a, 2 * b) + 1
    ELSE 0

\* M * n - 360 * 2^s for the double M / 2^s nearest to 360 / n
StepRho(n) ==
    LET s == 52 - FloorLog2(FullCircle, n)
        r == (FullCircle * Pow2Mod(s, n)) % n
    IN  IF 2 * r < n THEN 0 - r ELSE n - r

\* a / b rounded to the nearest integer, ties to even (b > 0)
RoundHalfEven(a, b) ==
    LET q == a \div b
        r == a % b
    IN  IF 2 * r < b THEN q
        ELSE IF 2 * r > b THEN q + 1
        ELSE IF q % 2 = 0 THEN q ELSE q + 1

Sign(x) == IF x > 0 THEN 1 ELSE IF x < 0 THEN -1 ELSE 0

\* direction in which the double k * (360.0 / n) misses the exact 360*k/n
\* when that is a whole number: -1 below, 0 exact, 1 above
LinspaceErr(n, k) ==
    IF k = 0 \/ k = n \/ (FullCircle * k) % n # 0 THEN 0
    ELSE LET d == (FullCircle * k) \div n
             delta == (k * StepRho(n)) \div n
             ed == FloorLog2(d, 1)
             t0 == ed - FloorLog2(FullCircle, n)
             t == IF delta < 0 /\ d = Pow2(ed) THEN t0 - 1 ELSE t0
         IN  Sign(RoundHalfEven(delta, Pow2(t)))

\* bin_edges[k] of np.linspace(0, 360, n + 1), k = 0..n
Edge(n, k) == [num |-> FullCircle * k, den |-> n, err |-> LinspaceErr(n, k)]

\* bin_edges as a sequence: bin_edges[k] of the code is Linspace(n)[k + 1]
Linspace(n) == [j \in 1..(n + 1) |-> Edge(n, j - 1)]

\* edge <= d for a whole number d
EdgeLeq(e, d) == e.num < d * e.den \/ (e.num = d * e.den /\ e.err <= 0)

\* round(edge): the nearest whole number instead of the whole part
IntOfRounded(e) == (2 * e.num + e.den) \div (2 * e.den)

\* int(edge): truncation of a non-negative double
IntOf(e) ==
    (e.num \div e.den) - (IF e.num % e.den = 0 /\ e.err < 0 THEN 1 ELSE 0)

\* the labels argument of pd.cut
SectorLabels(edges) ==
    [i \in 1..(Len(edges) - 1) |->
        ToString(IntOf(edges[i])) \o "-" \o ToString(IntOf(edges[i + 1]))]

\* a cut that wraps what lies on or beyond the last edge into the first sector
CutIndexWrapped(cell, edges) ==
    IF IsNa(cell) THEN 0
    ELSE LET ids == Cardinality({j \in 1..Len(edges) : EdgeLeq(edges[j], Val(cell))})
         IN  IF ids = Len(edges) THEN 1 ELSE ids

\* pd.cut(x, bins, right=False): bins.searchsorted(x, side="right") counts
\* the edges <= x; a count of 0 or of len(bins) is outside every interval
CutIndex(cell, edges) ==
    IF IsNa(cell) THEN 0
    ELSE LET ids == Cardinality({j \in 1..Len(edges) : EdgeLeq(edges[j], Val(cell))})
         IN  IF ids = Len(edges) THEN 0 ELSE ids

Cut(cell, edges, labels) ==
    LET i == CutIndex(cell, edges)
    IN  IF i = 0 THEN NA ELSE Some(labels[i])

LabelsUnique(labels) ==
    Cardinality({labels[i] : i \in 1..Len(labels)}) = Len(labels)

(* ------------------------- objects and the heap ----------------------- *)
\* the objects alive when a call starts: the table self.data refers to
Live(h) == "table" :> h["table"]

\* self.data reduced and cleaned in place, wind_data naming the same object
SelectDropnaInPlace(h, cs) ==
    [ref |-> "table",
     heap |-> [h EXCEPT !["table"] = DropNa(Select(h["table"], cs))]]

\* wind_data = self.data[[speed, dir]].dropna() : a new object; the table
\* itself is only read
SelectDropna(h, cs) ==
    [ref |-> "wind_data",
     heap |-> ("wind_data" :> DropNa(Select(h["table"], cs))) @@ h]

\* frame[name] = cells : adds (or replaces) a column of the object `ref`
SetColumn(h, ref, name, cells) ==
    LET f == h[ref]
        cs == f.cols \cup {name}
    IN  [h EXCEPT ![ref] =
            [cols |-> cs,
             rows |-> [i \in 1..Len(f.rows) |->
                         [c \in cs |-> IF c = name THEN cells[i] ELSE f.rows[i][c]]]]]

(* ----------------------------- averaging ------------------------------ *)
RECURSIVE Gcd(_, _)
Gcd(a, b) == IF b = 0 THEN a ELSE Gcd(b, a % b)

RECURSIVE SumCol(_, _)
SumCol(rows, c) ==
    IF rows = <<>> THEN 0 ELSE Val(Head(rows)[c]) + SumCol(Tail(rows), c)

\* a mean is the fraction sum / count in lowest terms
Mean(sum, cnt) ==
    LET g == Gcd(IF sum < 0 THEN 0 - sum ELSE sum, cnt)
    IN  [num |-> sum \div g, den |-> cnt \div g]

\* a group mean that reports 0 for a category without rows
GroupMeanZeroFilled(frame, c, labels) ==
    [k \in 1..Len(labels) |->
        LET grp == SelectSeq(frame.rows,
                        LAMBDA r : r["sector"] = Some(labels[k]) /\ ~IsNa(r[c]))
        IN  IF grp = <<>> THEN Some(Mean(0, 1)) ELSE Some(Mean(SumCol(grp, c), Len(grp)))]

\* frame.groupby('sector')[c].mean() on a categorical key: one entry per
\* category, in category order; rows whose key is missing belong to no
\* group; missing values are skipped; an empty group has mean NaN
\* (observed=False, the default of pandas 1.x and 2.x)
GroupMean(frame, c, labels) ==
    [k \in 1..Len(labels) |->
        LET grp == SelectSeq(frame.rows,
                        LAMBDA r : r["sector"] = Some(labels[k]) /\ ~IsNa(r[c]))
        IN  IF grp = <<>> THEN NA ELSE Some(Mean(SumCol(grp, c), Len(grp)))]

\* np.linspace(0, 2*pi, n, endpoint=False): angle k is (2*k/n) * pi
Angles(n) == [j \in 1..n |-> [num |-> 2 * (j - 1), den |-> n]]

\* the sequence left open
CloseSeqOmitted(xs) == xs

\* np.concatenate((xs, [xs[0]]))
CloseSeq(xs) == Append(xs, xs[1])

(* ------------------------------- state -------------------------------- *)
VARIABLES
    table,   \* the rows the caller built the table with (never assigned again)
    heap,    \* object id -> DataFrame; "table" is the object self.data names
    figs,    \* pyplot: the open figures, oldest first
    call     \* the last call: its arguments, locals, outcome and what it showed

vars == <<table, heap, figs, call>>

NoCall ==
    [op |-> "none", outcome |-> "none", speed_col |-> "", dir_col |-> "",
     num_bins |-> 0, wind_data |-> "unset", bin_edges |-> <<>>, labels |-> <<>>,
     sector_avg |-> <<>>, angles |-> <<>>, values |-> <<>>, shown |-> <<>>]

\* WindAnalysis(data): self.data = data
Init ==
    /\ table \in Datasets
    /\ heap = ("table" :> [cols |-> DataCols, rows |-> table])
    /\ figs = <<>>
    /\ call = NoCall

\* plt.show(): every open figure is displayed; the call blocks until the
\* windows are closed, which removes the figures from pyplot
Show(fs) == [shown |-> fs, figs |-> <<>>]

(* --------------------------- plot_radial_bar -------------------------- *)
RadialBar(h, fs, sc, dc, n) ==
    LET args == [NoCall EXCEPT !.op = "plot_radial_bar", !.speed_col = sc,
                               !.dir_col = dc, !.num_bins = n]
    IN
    IF ~({sc, dc} \subseteq h["table"].cols)
    THEN [heap |-> h, figs |-> fs, call |-> [args EXCEPT !.outcome = "KeyError"]]
    ELSE
    LET sd == SelectDropna(h, {sc, dc})
        bin_edges == Linspace(n)
        labels == SectorLabels(bin_edges)
        locals == [args EXCEPT !.wind_data = sd.ref, !.bin_edges = bin_edges,
                               !.labels = labels]
    IN
    \* pd.cut raises ValueError when two labels are equal
    IF ~LabelsUnique(labels)
    THEN [heap |-> sd.heap, figs |-> fs,
          call |-> [locals EXCEPT !.outcome = "ValueError"]]
    ELSE
    LET rows == sd.heap[sd.ref].rows
        sector == [i \in 1..Len(rows) |-> Cut(rows[i][dc], bin_edges, labels)]
        h2 == SetColumn(sd.heap, sd.ref, "sector", sector)
        sector_avg == GroupMean(h2[sd.ref], sc, labels)
        angles == CloseSeq(Angles(n))
        values == CloseSeq(sector_avg)
        fig == [kind |-> "polar", fill |-> [x |-> angles, y |-> values],
                xticks |-> SubSeq(angles, 1, Len(angles) - 1),
                xticklabels |-> labels,
                title |-> "Radial Bar Plot of Wind Speed by Direction"]
        sh == Show(Append(fs, fig))
    IN  [heap |-> h2, figs |-> sh.figs,
         call |-> [locals EXCEPT !.outcome = "returned", !.sector_avg = sector_avg,
                                 !.angles = angles, !.values = values,
                                 !.shown = sh.shown]]

PlotRadialBarOver(ns) ==
    \E cols \in ColArgs, n \in ns :
        LET r == RadialBar(Live(heap), figs, cols.speed, cols.dir, n)
        IN  /\ heap' = r.heap
            /\ figs' = r.figs
            /\ call' = r.call
            /\ UNCHANGED table

PlotRadialBar == PlotRadialBarOver(NumBinsArgs)

(* --------------------------- plot_wind_rose --------------------------- *)
WindRose(h, fs, sc, dc, bins, cmap) ==
    LET args == [NoCall EXCEPT !.op = "plot_wind_rose", !.speed_col = sc,
                               !.dir_col = dc]
        bins1 == IF bins = NA THEN DefaultBins ELSE Val(bins)
    IN
    IF ~({sc, dc} \subseteq h["table"].cols)
    THEN [heap |-> h, figs |-> fs, call |-> [args EXCEPT !.outcome = "KeyError"]]
    ELSE
    LET sd == SelectDropna(h, {sc, dc})
        locals == [args EXCEPT !.wind_data = sd.ref]
    IN
    \* cm.get_cmap(name) raises ValueError for a name it does not know
    IF cmap.type = "str" /\ cmap.v \notin RegisteredCmaps
    THEN [heap |-> sd.heap, figs |-> fs,
          call |-> [locals EXCEPT !.outcome = "ValueError"]]
    ELSE
    LET cmap1 == IF cmap.type = "str" THEN [type |-> "Colormap", v |-> cmap.v]
                 ELSE cmap
        rows == sd.heap[sd.ref].rows
        blank == [kind |-> "windrose", bar |-> NA, legend |-> FALSE, title |-> ""]
        fs1 == Append(fs, blank)
    IN
    \* WindroseAxes.from_ax() has opened a figure; ax.bar calls cmap(i) for
    \* the colours, which raises TypeError when cmap is not callable
    IF cmap1.type # "Colormap"
    THEN [heap |-> sd.heap, figs |-> fs1,
          call |-> [locals EXCEPT !.outcome = "TypeError"]]
    ELSE
    LET bar == [direction |-> [i \in 1..Len(rows) |-> rows[i][dc]],
                var |-> [i \in 1..Len(rows) |-> rows[i][sc]],
                normed |-> TRUE, bins |-> bins1, cmap |-> cmap1.v]
        fig == [kind |-> "windrose", bar |-> Some(bar), legend |-> TRUE,
                title |-> "Wind Rose"]
        sh == Show(Append(fs, fig))
    IN  [heap |-> sd.heap, figs |-> sh.figs,
         call |-> [locals EXCEPT !.outcome = "returned", !.shown = sh.shown]]

PlotWindRose ==
    \E cols \in ColArgs, bins \in BinsArgs, cmap \in CmapArgs :
        LET r == WindRose(Live(heap), figs, cols.speed, cols.dir, bins, cmap)
        IN  /\ Len(r.figs) <= MaxFigs
            /\ heap' = r.heap
            /\ figs' = r.figs
            /\ call' = r.call
            /\ UNCHANGED table

Next == PlotWindRose \/ PlotRadialBar

Spec == Init /\ [][Next]_vars

(* The same program called with very large sector counts, on tables of at  *)
(* most one row.                                                           *)
InitWide ==
    /\ Init
    /\ Len(table) <= 1

PlotRadialBarWide == PlotRadialBarOver(WideNumBinsArgs)

NextWide == PlotWindRose \/ PlotRadialBarWide

SpecWide == InitWide /\ [][NextWide]_vars

(* ======================== properties of the calls ==================== *)
RadialReturned == call.op = "plot_radial_bar" /\ call.outcome = "returned"
RoseReturned == call.op = "plot_wind_rose" /\ call.outcome = "returned"
HasLocal == call.wind_data # "unset"
Complete(row) == ~IsNa(row[call.speed_col]) /\ ~IsNa(row[call.dir_col])
InCircle(row) == Val(row[call.dir_col]) >= 0 /\ Val(row[call.dir_col]) < FullCircle
Pair(row) == <<row[call.speed_col], row[call.dir_col]>>
Pairs(rows) == [i \in 1..Len(rows) |-> Pair(rows[i])]

\* the rows of the table for which keep holds, in table order
Filtered(rows, keep(_)) ==
    LET idx == {i \in 1..Len(rows) : keep(rows[i])}
        nth(j) == CHOOSE i \in idx : Cardinality({m \in idx : m <= i}) = j
    IN  [j \in 1..Cardinality(idx) |-> rows[nth(j)]]

\* the sector averages plot_radial_bar computes for a table of these rows
AvgOf(rows) ==
    RadialBar("table" :> [cols |-> DataCols, rows |-> rows], <<>>,
              call.speed_col, call.dir_col, call.num_bins).call.sector_avg

(* C1: a row with a missing speed or direction never reaches binning,      *)
(* averaging or the wind rose: the rows of wind_data are exactly the rows  *)
(* of the table with both values present, in order; the wind rose is drawn *)
(* from exactly those; and the sector means are those of the table with    *)
(* the incomplete rows taken out.                                          *)
C1_MissingRowsExcluded ==
    HasLocal =>
        /\ Pairs(heap[call.wind_data].rows) = Pairs(Filtered(table, Complete))
        /\ RoseReturned =>
             LET bar == Val(call.shown[Len(call.shown)].bar)
                 kept == Filtered(table, Complete)
             IN  /\ bar.direction = [i \in 1..Len(kept) |-> kept[i][call.dir_col]]
                 /\ bar.var = [i \in 1..Len(kept) |-> kept[i][call.speed_col]]
        /\ RadialReturned => call.sector_avg = AvgOf(Filtered(table, Complete))

C1_Witness ==
    /\ RadialReturned
    /\ \E i \in 1..Len(table) : ~Complete(table[i])
    /\ \E i \in 1..Len(table) : Complete(table[i]) /\ InCircle(table[i])
    /\ \E k \in 1..Len(call.sector_avg) : call.sector_avg[k] # NA

(* C2: the value of sector k is the mean speed of exactly the complete     *)
(* rows with 360*k/num_bins <= direction < 360*(k+1)/num_bins (missing     *)
(* when there is none), and the four-row example gives 1, 2, 3, 4 under    *)
(* the labels "0-90", "90-180", "180-270", "270-360".                      *)
InExactSector(row, k, n) ==
    /\ Complete(row)
    /\ FullCircle * k <= Val(row[call.dir_col]) * n
    /\ Val(row[call.dir_col]) * n < FullCircle * (k + 1)

ExactMean(k, n) ==
    LET rs == Filtered(table, LAMBDA r : InExactSector(r, k, n))
    IN  IF rs = <<>> THEN NA ELSE Some(Mean(SumCol(rs, call.speed_col), Len(rs)))

C2_SectorMeanOfExactInterval ==
    RadialReturned =>
        /\ \A k \in 0..(call.num_bins - 1) :
               call.values[k + 1] = ExactMean(k, call.num_bins)
        /\ (table = ExampleData /\ call.num_bins = 4) =>
               /\ SubSeq(call.values, 1, 4) =
                    <<Some(Mean(1, 1)), Some(Mean(2, 1)), Some(Mean(3, 1)), Some(Mean(4, 1))>>
               /\ call.labels = <<"0-90", "90-180", "180-270", "270-360">>

(* What the code computes in place of C2: the value of sector k is the     *)
(* mean speed of the complete rows lying between boundary k and boundary   *)
(* k+1 as np.linspace rounded them.                                        *)
ComputedMean(k) ==
    LET rs == Filtered(table, LAMBDA r :
                  /\ Complete(r)
                  /\ EdgeLeq(call.bin_edges[k], Val(r[call.dir_col]))
                  /\ ~EdgeLeq(call.bin_edges[k + 1], Val(r[call.dir_col])))
    IN  IF rs = <<>> THEN NA ELSE Some(Mean(SumCol(rs, call.speed_col), Len(rs)))

C2_SectorMeanOfComputedInterval ==
    RadialReturned =>
        \A k \in 1..call.num_bins : call.values[k] = ComputedMean(k)

(* C3: the sectors are num_bins equal-width half-open intervals that       *)
(* partition [0,360): boundary 0 is 0, boundary num_bins is 360, each      *)
(* boundary is exactly one width 360/num_bins after the one before it      *)
(* (sector k ends where sector k+1 starts), and every whole direction in   *)
(* [0,360) next to a boundary lies in exactly one sector.                  *)
EdgeIs(e, d) == e.num = d * e.den /\ e.err = 0
EdgeLess(e, d) == e.num < d * e.den \/ (e.num = d * e.den /\ e.err < 0)
InSector(d, edges, k) == EdgeLeq(edges[k], d) /\ ~EdgeLeq(edges[k + 1], d)
NearBoundaries(n) ==
    {d \in 0..(FullCircle - 1) :
        \E k \in 0..n : d \in ((FullCircle * k) \div n - 1)..((FullCircle * k) \div n + 1)}

BoundariesBuilt == call.op = "plot_radial_bar" /\ call.bin_edges # <<>>

C3_EqualWidthPartition ==
    BoundariesBuilt =>
        LET n == call.num_bins
            e == call.bin_edges
        IN  /\ Len(e) = n + 1
            /\ EdgeIs(e[1], 0)
            /\ EdgeIs(e[n + 1], FullCircle)
            /\ \A k \in 1..n :
                   /\ (e[k + 1].num * e[k].den - e[k].num * e[k + 1].den) * n
                        = FullCircle * e[k].den * e[k + 1].den
                   /\ e[k + 1].err = e[k].err
            /\ \A d \in NearBoundaries(n) :
                   Cardinality({k \in 1..n : InSector(d, e, k)}) = 1

(* The part of C3 that the rounding of the boundaries leaves intact: the   *)
(* boundaries start at 0, end at 360, increase, and every whole direction  *)
(* in [0,360) next to a boundary lies in exactly one sector.               *)
C3_Partition ==
    BoundariesBuilt =>
        LET n == call.num_bins
            e == call.bin_edges
        IN  /\ Len(e) = n + 1
            /\ EdgeIs(e[1], 0)
            /\ EdgeIs(e[n + 1], FullCircle)
            /\ \A d \in NearBoundaries(n) :
                   Cardinality({k \in 1..n : InSector(d, e, k)}) = 1

(* C4 as stated: every label is "<low>-<high>" with low and high the       *)
(* sector's own boundaries, for 8 sectors the labels are "0-45" ...        *)
(* "315-360", and the labels are pairwise distinct.                        *)
LabelsBuilt == call.op = "plot_radial_bar" /\ call.labels # <<>>
Whole == 0..FullCircle
EightLabels ==
    <<"0-45", "45-90", "90-135", "135-180", "180-225", "225-270", "270-315", "315-360">>

C4_LabelIsOwnBoundaries ==
    LabelsBuilt =>
        /\ \A k \in 1..call.num_bins :
               \E lo \in Whole :
                   /\ EdgeIs(call.bin_edges[k], lo)
                   /\ \E hi \in Whole :
                          /\ EdgeIs(call.bin_edges[k + 1], hi)
                          /\ call.labels[k] = ToString(lo) \o "-" \o ToString(hi)
        /\ call.num_bins = DefaultNumBins => call.labels = EightLabels
        /\ \A i, j \in 1..call.num_bins : i # j => call.labels[i] # call.labels[j]

(* C4 amended: every label is "<low>-<high>" with low and high the whole   *)
(* parts of the sector's boundaries as computed (the largest whole number  *)
(* not above the boundary); for 8 sectors the labels are "0-45" ...        *)
(* "315-360"; and the labels are pairwise distinct when num_bins <= 720.   *)
WholePart(e) == CHOOSE m \in Whole : ~EdgeLess(e, m) /\ EdgeLess(e, m + 1)
MaxDistinctBins == 2 * FullCircle

C4_LabelIsTruncatedBoundaries ==
    LabelsBuilt =>
        /\ \A k \in 1..call.num_bins :
               call.labels[k] = ToString(WholePart(call.bin_edges[k])) \o "-"
                                  \o ToString(WholePart(call.bin_edges[k + 1]))
        /\ call.num_bins = DefaultNumBins => call.labels = EightLabels
        /\ call.num_bins <= MaxDistinctBins =>
               \A i, j \in 1..call.num_bins : i # j => call.labels[i] # call.labels[j]

C4_Witness ==
    /\ LabelsBuilt
    /\ call.outcome = "returned"
    /\ call.num_bins = 33
    /\ call.labels[11] = "109-119"
    /\ \E k \in 1..Len(call.bin_edges) : \A m \in Whole : ~EdgeIs(call.bin_edges[k], m)

(* C5: a sector with no row keeps its position and its value is missing:   *)
(* there is one average per sector, in label order, and the average of a   *)
(* sector that no row of wind_data was assigned to is NA, not 0.           *)
RowsIn(k) ==
    {i \in 1..Len(heap[call.wind_data].rows) :
        heap[call.wind_data].rows[i]["sector"] = Some(call.labels[k])}

C5_EmptySectorIsMissing ==
    RadialReturned =>
        /\ Len(call.sector_avg) = call.num_bins
        /\ Len(call.labels) = call.num_bins
        /\ \A k \in 1..call.num_bins :
               (RowsIn(k) = {}) <=> (call.sector_avg[k] = NA)

C5_Witness ==
    /\ RadialReturned
    /\ \E k \in 1..call.num_bins : RowsIn(k) = {}
    /\ \E k \in 1..call.num_bins : RowsIn(k) # {}

(* C6: the angle and value sequences given to the filled polar chart both  *)
(* have num_bins + 1 elements and each ends with its own first element.    *)
Closed(xs, n) == Len(xs) = n + 1 /\ xs[n + 1] = xs[1]

AllFilteredOut ==
    /\ call.op = "plot_radial_bar"
    /\ call.speed_col \in DataCols /\ call.dir_col \in DataCols
    /\ \A i \in 1..Len(table) : ~Complete(table[i])

C7_NoDataIsAnError ==
    AllFilteredOut => call.outcome = "NoDataError" /\ call.shown = <<>>

(* C8: no call changes the table the helper holds: it keeps its rows, its  *)
(* columns and its values; the sector column is written to an object of    *)
(* the call's own.                                                         *)
C8_TableNeverModified ==
    /\ heap["table"] = [cols |-> DataCols, rows |-> table]
    /\ RadialReturned =>
         /\ call.wind_data # "table"
         /\ "sector" \in heap[call.wind_data].cols

C8_Witness ==
    /\ RadialReturned
    /\ \E i \in 1..Len(table) : Complete(table[i]) /\ InCircle(table[i])
    /\ \E i \in 1..Len(table) : ~Complete(table[i])

(* C9: a call that raises leaves the table and the open figures as they    *)
(* were before it.                                                         *)
Raised(c) == c.outcome \notin {"none", "returned"}

C9_FailureLeavesNoTrace ==
    [][Raised(call') => (heap'["table"] = heap["table"] /\ figs' = figs)]_vars

(* C10: a complete row whose direction is 360, below 0 or above 360 is     *)
(* assigned to no sector and contributes to no mean: the averages are      *)
(* those of the table without such rows.                                   *)
InsideCircle(row) == Complete(row) => InCircle(row)

C10_OutsideCircleDropped ==
    RadialReturned =>
        /\ \A i \in 1..Len(heap[call.wind_data].rows) :
               LET row == heap[call.wind_data].rows[i]
               IN  ~InCircle(row) => row["sector"] = NA
        /\ call.sector_avg = AvgOf(Filtered(table, InsideCircle))

C10_Witness ==
    /\ RadialReturned
    /\ \E i \in 1..Len(table) :
           Complete(table[i]) /\ Val(table[i][call.dir_col]) = FullCircle
    /\ call.sector_avg[1] # NA

====
